---- MODULE Spec2Model ----
(***************************************************************************)
(* Model of the user authentication service                                *)
(* (0x03-user_authentication_service): the Auth class of auth.py over the  *)
(* users table of user.py, reached through the DB store (add_user,         *)
(* find_user_by, update_user), the views of app.py in front of it, and    *)
(* filter_datum of 0x00-personal_data/filtered_logger.py.                  *)
(*                                                                         *)
(* Python's None is the empty tuple, and a value v that could be None is   *)
(* carried as <<v>>, so that None, the empty string and a uuid string are  *)
(* three different values.                                                 *)
(***************************************************************************)
EXTENDS Integers, Sequences, FiniteSets, TLC

VARIABLES users, uuids, last, pwOf, consumed, pc, loc, resp, live, dead,
          stale, datum

vars == <<users, uuids, last, pwOf, consumed, pc, loc, resp, live, dead,
          stale, datum>>

http == <<resp, live, dead, stale>>

(***************************************************************************)
(* Bounds of the model.                                                    *)
(***************************************************************************)
MaxUuid == 2
NumProcs == 2
MaxPairs == 2

None == <<>>
Some(v) == <<v>>

\* HttpSalts: what an HTTP response shows, and which row a call writes,
\* does not depend on the salt of a hash; the requests of the HTTP layer
\* draw it from a set of one.
Emails == {"a@x.com", "b@x.com"}
Passwords == {"", "pw1"}
Salts == {"salt-a", "salt-b"}
HttpSalts == {"salt-a"}
Procs == 1..NumProcs

(***************************************************************************)
(* bcrypt: hashpw(password, salt) embeds the salt in its output, and       *)
(* checkpw re-hashes the candidate with the salt of the stored hash and    *)
(* compares.  The digest is one-way and collision free: it is modelled as  *)
(* the pair of its two inputs, which nothing but checkpw ever opens.       *)
(***************************************************************************)
hashpw(password, salt) == [salt |-> salt, digest |-> <<salt, password>>]

checkpw(password, hashed_password) ==
    hashpw(password, hashed_password.salt) = hashed_password

_hash_password(password, salt) == hashpw(password, salt)

(***************************************************************************)
(* str(uuid4()): the n-th identifier generated; distinct calls give        *)
(* distinct strings, none of them empty.                                   *)
(***************************************************************************)
_generate_uuid_constant(n) == "uuid-" \o ToString(1)

_generate_uuid(n) == "uuid-" \o ToString(n)

Uuids == {_generate_uuid(n) : n \in 1..MaxUuid}

(***************************************************************************)
(* The users table (user.py).  A row is a record with the five columns;    *)
(* the table is the sequence of its rows in insertion order.  The email    *)
(* column is declared without unique=True.                                 *)
(***************************************************************************)
User(id, email, hashed_password) ==
    [id |-> id, email |-> email, hashed_password |-> hashed_password,
     session_id |-> None, reset_token |-> None]

email_unique == FALSE

(***************************************************************************)
(* The DB store.  find_user_by gives the position of the first row whose   *)
(* column equals the value, 0 for NoResultFound.                           *)
(***************************************************************************)
Matches(db, key, val) == {i \in 1..Len(db) : db[i][key] = val}

Least(S) == CHOOSE i \in S : \A j \in S : i <= j

find_user_by(db, key, val) ==
    IF Matches(db, key, val) = {} THEN 0 ELSE Least(Matches(db, key, val))

add_user(db, email, hashed_password) ==
    IF email_unique /\ Matches(db, "email", email) # {}
    THEN [db |-> db, raised |-> "IntegrityError"]
    ELSE [db |-> Append(db, User(Len(db) + 1, email, hashed_password)),
          raised |-> ""]

update_user(db, user_id, fields) ==
    [i \in 1..Len(db) |->
        IF db[i].id = user_id
        THEN [c \in DOMAIN db[i] |->
                 IF c \in DOMAIN fields THEN fields[c] ELSE db[i][c]]
        ELSE db[i]]

(***************************************************************************)
(* Auth (auth.py).  Every method is an operator from the table it is       *)
(* called on to the table it leaves, its return value (ret), the           *)
(* exception it lets escape (raised, "" for none), the number of           *)
(* find_user_by calls it made (lookups) and the number of uuids it drew    *)
(* (gen).  n is the number of uuids generated before the call and salt     *)
(* the value gensalt() returns.                                            *)
(***************************************************************************)
Result(db, ret, raised, lookups, gen) ==
    [db |-> db, ret |-> ret, raised |-> raised, lookups |-> lookups, gen |-> gen]

create_session_update_clears_reset(db, user_id, session_id) ==
    update_user(db, user_id,
                [session_id |-> Some(session_id), reset_token |-> None])

create_session_update(db, user_id, session_id) ==
    update_user(db, user_id, [session_id |-> Some(session_id)])

destroy_session_update(db, user_id) ==
    update_user(db, user_id, [session_id |-> None])

get_reset_password_token_update(db, user_id, reset_token) ==
    update_user(db, user_id, [reset_token |-> Some(reset_token)])

update_password_update(db, user_id, password, salt) ==
    update_user(db, user_id,
                [hashed_password |-> _hash_password(password, salt),
                 reset_token |-> None])

register_user_add(db, email, password, salt) ==
    LET a == add_user(db, email, _hash_password(password, salt))
    IN  IF a.raised = ""
        THEN Result(a.db, Some(a.db[Len(a.db)]), "", 1, 0)
        ELSE Result(db, None, a.raised, 1, 0)

register_user_no_lookup(db, email, password, salt) ==
    register_user_add(db, email, password, salt)

register_user(db, email, password, salt) ==
    IF find_user_by(db, "email", email) = 0
    THEN register_user_add(db, email, password, salt)
    ELSE Result(db, None, "ValueError", 1, 0)

valid_login(db, email, password) ==
    LET i == find_user_by(db, "email", email)
    IN  IF i = 0
        THEN Result(db, Some(FALSE), "", 1, 0)
        ELSE Result(db, Some(checkpw(password, db[i].hashed_password)), "", 1, 0)

create_session_raises_on_miss(db, email, n) ==
    LET i == find_user_by(db, "email", email)
        session_id == _generate_uuid(n + 1)
    IN  IF i = 0
        THEN Result(db, None, "ValueError", 1, 0)
        ELSE Result(update_user(db, db[i].id, [session_id |-> Some(session_id)]),
                    Some(session_id), "", 1, 1)

create_session_not_stored(db, email, n) ==
    LET i == find_user_by(db, "email", email)
        session_id == _generate_uuid(n + 1)
    IN  IF i = 0
        THEN Result(db, None, "", 1, 0)
        ELSE Result(db, Some(session_id), "", 1, 1)

create_session(db, email, n) ==
    LET i == find_user_by(db, "email", email)
        session_id == _generate_uuid(n + 1)
    IN  IF i = 0
        THEN Result(db, None, "", 1, 0)
        ELSE Result(create_session_update(db, db[i].id, session_id),
                    Some(session_id), "", 1, 1)

get_user_from_session_id_no_none_check(db, session_id) ==
    LET i == find_user_by(db, "session_id", session_id)
    IN  IF i = 0
        THEN Result(db, None, "", 1, 0)
        ELSE Result(db, Some(db[i]), "", 1, 0)

get_user_from_session_id(db, session_id) ==
    IF session_id = None
    THEN Result(db, None, "", 0, 0)
    ELSE LET i == find_user_by(db, "session_id", session_id)
         IN  IF i = 0
             THEN Result(db, None, "", 1, 0)
             ELSE Result(db, Some(db[i]), "", 1, 0)

destroy_session_deletes_record(db, user_id) ==
    IF user_id = None
    THEN Result(db, None, "", 0, 0)
    ELSE LET i == find_user_by(db, "id", user_id[1])
         IN  IF i = 0
             THEN Result(db, None, "", 1, 0)
             ELSE Result(SubSeq(db, 1, i - 1) \o SubSeq(db, i + 1, Len(db)),
                         None, "", 1, 0)

destroy_session_skips_update(db, user_id) ==
    IF user_id = None
    THEN Result(db, None, "", 0, 0)
    ELSE Result(db, None, "", 1, 0)

destroy_session_raises_when_logged_out(db, user_id) ==
    IF user_id = None
    THEN Result(db, None, "", 0, 0)
    ELSE LET i == find_user_by(db, "id", user_id[1])
         IN  IF i = 0
             THEN Result(db, None, "", 1, 0)
             ELSE IF db[i].session_id = None
                  THEN Result(db, None, "ValueError", 1, 0)
                  ELSE Result(update_user(db, db[i].id, [session_id |-> None]),
                              None, "", 1, 0)

destroy_session(db, user_id) ==
    IF user_id = None
    THEN Result(db, None, "", 0, 0)
    ELSE LET i == find_user_by(db, "id", user_id[1])
         IN  IF i = 0
             THEN Result(db, None, "", 1, 0)
             ELSE Result(destroy_session_update(db, db[i].id), None, "", 1, 0)

get_reset_password_token_not_replaced(db, email, n) ==
    LET i == find_user_by(db, "email", email)
        reset_token == _generate_uuid(n + 1)
    IN  IF i = 0
        THEN Result(db, None, "ValueError", 1, 0)
        ELSE IF db[i].reset_token # None
             THEN Result(db, Some(reset_token), "", 1, 1)
             ELSE Result(update_user(db, db[i].id,
                                     [reset_token |-> Some(reset_token)]),
                         Some(reset_token), "", 1, 1)

get_reset_password_token_none_on_miss(db, email, n) ==
    LET i == find_user_by(db, "email", email)
        reset_token == _generate_uuid(n + 1)
    IN  IF i = 0
        THEN Result(db, None, "", 1, 0)
        ELSE Result(update_user(db, db[i].id, [reset_token |-> Some(reset_token)]),
                    Some(reset_token), "", 1, 1)

get_reset_password_token(db, email, n) ==
    LET i == find_user_by(db, "email", email)
        reset_token == _generate_uuid(n + 1)
    IN  IF i = 0
        THEN Result(db, None, "ValueError", 1, 0)
        ELSE Result(get_reset_password_token_update(db, db[i].id, reset_token),
                    Some(reset_token), "", 1, 1)

update_password_clears_session(db, reset_token, password, salt) ==
    IF reset_token = None \/ password = None
    THEN Result(db, None, "", 0, 0)
    ELSE LET i == find_user_by(db, "reset_token", reset_token)
         IN  IF i = 0
             THEN Result(db, None, "ValueError", 1, 0)
             ELSE Result(update_user(db, db[i].id,
                                     [hashed_password |->
                                          _hash_password(password[1], salt),
                                      reset_token |-> None,
                                      session_id |-> None]),
                         None, "", 1, 0)

update_password_keeps_hash(db, reset_token, password, salt) ==
    IF reset_token = None \/ password = None
    THEN Result(db, None, "", 0, 0)
    ELSE LET i == find_user_by(db, "reset_token", reset_token)
         IN  IF i = 0
             THEN Result(db, None, "ValueError", 1, 0)
             ELSE Result(update_user(db, db[i].id, [reset_token |-> None]),
                         None, "", 1, 0)

update_password_keeps_token(db, reset_token, password, salt) ==
    IF reset_token = None \/ password = None
    THEN Result(db, None, "", 0, 0)
    ELSE LET i == find_user_by(db, "reset_token", reset_token)
         IN  IF i = 0
             THEN Result(db, None, "ValueError", 1, 0)
             ELSE Result(update_user(db, db[i].id,
                                     [hashed_password |->
                                          _hash_password(password[1], salt)]),
                         None, "", 1, 0)

update_password(db, reset_token, password, salt) ==
    IF reset_token = None \/ password = None
    THEN Result(db, None, "", 0, 0)
    ELSE LET i == find_user_by(db, "reset_token", reset_token)
         IN  IF i = 0
             THEN Result(db, None, "ValueError", 1, 0)
             ELSE Result(update_password_update(db, db[i].id, password[1],
                                                salt),
                         None, "", 1, 0)

(***************************************************************************)
(* The arguments the callers pass.  None is an argument only of the        *)
(* methods that test for it.                                               *)
(***************************************************************************)
TokenArgs == {None, Some("")} \cup {Some(u) : u \in Uuids}
IdArgs == {None} \cup {Some(i) : i \in 1..(Cardinality(Emails) + 1)}
PasswordArgs == {None} \cup {Some(p) : p \in Passwords}

NoCall ==
    [op |-> "", email |-> None, password |-> None, token |-> None,
     user_id |-> None, ret |-> None, raised |-> "", lookups |-> 0]

Call(op, email, password, token, user_id, r) ==
    [op |-> op, email |-> email, password |-> password, token |-> token,
     user_id |-> user_id, ret |-> r.ret, raised |-> r.raised,
     lookups |-> r.lookups]

(***************************************************************************)
(* State.  users is the table, uuids the number of uuids generated so far, *)
(* last the most recent call with its outcome.  pwOf and consumed are      *)
(* history variables: the plaintext each email was last given by a         *)
(* registration or a password update that went through, and the reset      *)
(* tokens that a password update has gone through with.  pc and loc are    *)
(* the positions and locals of the requests that run interleaved.  resp    *)
(* is the latest HTTP request with its response; live and dead are         *)
(* history variables of the HTTP layer: the session cookies a login issued *)
(* that no logout destroyed and no later login of the same user replaced   *)
(* (each with the email that logged in), and the cookies that a logout     *)
(* went through with.  stale is a history variable of the logins that run  *)
(* interleaved: whether the credentials of the login that resp answers had *)
(* stopped passing valid_login by the time its create_session call ended.  *)
(* datum is the filter_datum call of the log redaction: its arguments,     *)
(* the key=value pairs the message was written from, and what it returned. *)
(***************************************************************************)
Idle == [op |-> "", email |-> None, password |-> None, salt |-> None,
         token |-> None, user_id |-> None, found |-> 0, ret |-> None,
         raised |-> ""]

NoRequest ==
    [route |-> "", email |-> None, password |-> None, token |-> None,
     cookie |-> None, status |-> 0, body |-> None, set_cookie |-> None]

NoDatum ==
    [fields |-> <<>>, pairs |-> <<>>, message |-> <<>>, out |-> <<>>,
     done |-> FALSE]

Init ==
    /\ users = <<>>
    /\ uuids = 0
    /\ last = NoCall
    /\ pwOf = [e \in Emails |-> None]
    /\ consumed = {}
    /\ pc = [p \in Procs |-> "idle"]
    /\ loc = [p \in Procs |-> Idle]
    /\ resp = NoRequest
    /\ live = {}
    /\ dead = {}
    /\ stale = FALSE
    /\ datum = NoDatum

RegisterUser ==
    \E email \in Emails, password \in Passwords, salt \in Salts :
        LET r == register_user(users, email, password, salt)
        IN  /\ users' = r.db
            /\ last' = Call("register_user", Some(email), Some(password),
                            None, None, r)
            /\ pwOf' = IF r.raised = ""
                       THEN [pwOf EXCEPT ![email] = Some(password)]
                       ELSE pwOf
            /\ UNCHANGED <<uuids, consumed, pc, loc, http, datum>>

ValidLogin ==
    \E email \in Emails, password \in Passwords :
        LET r == valid_login(users, email, password)
        IN  /\ users' = r.db
            /\ last' = Call("valid_login", Some(email), Some(password),
                            None, None, r)
            /\ UNCHANGED <<uuids, pwOf, consumed, pc, loc, http, datum>>

CreateSession ==
    \E email \in Emails :
        LET r == create_session(users, email, uuids)
        IN  /\ uuids + r.gen <= MaxUuid
            /\ users' = r.db
            /\ uuids' = uuids + r.gen
            /\ last' = Call("create_session", Some(email), None, None, None, r)
            /\ UNCHANGED <<pwOf, consumed, pc, loc, http, datum>>

GetUserFromSessionId ==
    \E session_id \in TokenArgs :
        LET r == get_user_from_session_id(users, session_id)
        IN  /\ users' = r.db
            /\ last' = Call("get_user_from_session_id", None, None,
                            session_id, None, r)
            /\ UNCHANGED <<uuids, pwOf, consumed, pc, loc, http, datum>>

DestroySession ==
    \E user_id \in IdArgs :
        LET r == destroy_session(users, user_id)
        IN  /\ users' = r.db
            /\ last' = Call("destroy_session", None, None, None, user_id, r)
            /\ UNCHANGED <<uuids, pwOf, consumed, pc, loc, http, datum>>

GetResetPasswordToken ==
    \E email \in Emails :
        LET r == get_reset_password_token(users, email, uuids)
        IN  /\ uuids + r.gen <= MaxUuid
            /\ users' = r.db
            /\ uuids' = uuids + r.gen
            /\ last' = Call("get_reset_password_token", Some(email), None,
                            None, None, r)
            /\ UNCHANGED <<pwOf, consumed, pc, loc, http, datum>>

UpdatePassword ==
    \E reset_token \in TokenArgs, password \in PasswordArgs, salt \in Salts :
        LET r == update_password(users, reset_token, password, salt)
            holder == find_user_by(users, "reset_token", reset_token)
            through == /\ reset_token # None
                       /\ password # None
                       /\ holder # 0
                       /\ r.raised = ""
        IN  /\ users' = r.db
            /\ last' = Call("update_password", None, password, reset_token,
                            None, r)
            /\ pwOf' = IF through
                       THEN [pwOf EXCEPT ![users[holder].email] = password]
                       ELSE pwOf
            /\ consumed' = IF through
                           THEN consumed \cup {reset_token}
                           ELSE consumed
            /\ UNCHANGED <<uuids, pc, loc, http, datum>>

Next ==
    \/ RegisterUser
    \/ ValidLogin
    \/ CreateSession
    \/ GetUserFromSessionId
    \/ DestroySession
    \/ GetResetPasswordToken
    \/ UpdatePassword

Spec == Init /\ [][Next]_vars

(***************************************************************************)
(* Requests served on concurrent threads against the one AUTH object       *)
(* (app.py): each DB call is one atomic step, and the steps of different   *)
(* requests interleave.  A request p is a register_user call: it evaluates *)
(* its arguments, looks the email up, and adds the user if the look-up     *)
(* raised NoResultFound.                                                   *)
(***************************************************************************)
RegCall(p) ==
    /\ pc[p] = "idle"
    /\ \E email \in Emails, password \in Passwords, salt \in Salts :
           loc' = [loc EXCEPT ![p] = [Idle EXCEPT !.op = "register_user",
                                                  !.email = Some(email),
                                                  !.password = Some(password),
                                                  !.salt = Some(salt)]]
    /\ pc' = [pc EXCEPT ![p] = "reg_find"]
    /\ UNCHANGED <<users, uuids, last, pwOf, consumed, http, datum>>

RegFind(p) ==
    /\ pc[p] = "reg_find"
    /\ LET found == find_user_by(users, "email", loc[p].email[1])
       IN  /\ loc' = [loc EXCEPT ![p].found = found,
                                 ![p].raised = IF found = 0 THEN ""
                                               ELSE "ValueError"]
           /\ pc' = [pc EXCEPT ![p] = IF found = 0 THEN "reg_add" ELSE "done"]
    /\ UNCHANGED <<users, uuids, last, pwOf, consumed, http, datum>>

RegAdd(p) ==
    /\ pc[p] = "reg_add"
    /\ LET r == register_user_add(users, loc[p].email[1], loc[p].password[1],
                                  loc[p].salt[1])
       IN  /\ users' = r.db
           /\ loc' = [loc EXCEPT ![p].ret = r.ret, ![p].raised = r.raised]
    /\ pc' = [pc EXCEPT ![p] = "done"]
    /\ UNCHANGED <<uuids, last, pwOf, consumed, http, datum>>

NextConc == \E p \in Procs : RegCall(p) \/ RegFind(p) \/ RegAdd(p)

SpecConc == Init /\ [][NextConc]_vars

(***************************************************************************)
(* Requests on concurrent threads that work on existing user records.  A   *)
(* thread calls create_session, destroy_session, get_reset_password_token  *)
(* or update_password; the method's find_user_by is one atomic step and    *)
(* its update_user, on the id of the row it found, a later one.  Users are *)
(* registered by requests that run without interleaving.  Two such         *)
(* requests are in flight at a time; each thread serves one request after  *)
(* another.                                                                *)
(***************************************************************************)
OpThreads == {p \in Procs : p <= 2}

Register ==
    /\ \E email \in Emails, password \in Passwords, salt \in HttpSalts :
           users' = register_user(users, email, password, salt).db
    /\ UNCHANGED <<uuids, last, pwOf, consumed, pc, loc, http, datum>>

OpCall(p) ==
    /\ pc[p] = "idle"
    /\ \/ \E op \in {"create_session", "get_reset_password_token"},
             email \in Emails :
              loc' = [loc EXCEPT ![p] = [Idle EXCEPT !.op = op,
                                                     !.email = Some(email)]]
       \/ \E user_id \in 1..Cardinality(Emails) :
              loc' = [loc EXCEPT ![p] = [Idle EXCEPT !.op = "destroy_session",
                                                     !.user_id = Some(user_id)]]
       \/ \E reset_token \in Uuids, password \in Passwords,
             salt \in HttpSalts :
              loc' = [loc EXCEPT ![p] = [Idle EXCEPT !.op = "update_password",
                                                     !.token = Some(reset_token),
                                                     !.password = Some(password),
                                                     !.salt = Some(salt)]]
    /\ pc' = [pc EXCEPT ![p] = "op_find"]
    /\ UNCHANGED <<users, uuids, last, pwOf, consumed, http, datum>>

OpLookup(call) ==
    CASE call.op \in {"create_session", "get_reset_password_token"} ->
             find_user_by(users, "email", call.email[1])
      [] call.op = "destroy_session" ->
             find_user_by(users, "id", call.user_id[1])
      [] call.op = "update_password" ->
             find_user_by(users, "reset_token", call.token)

OpFind(p) ==
    /\ pc[p] = "op_find"
    /\ LET i == OpLookup(loc[p])
       IN  IF i = 0
           THEN /\ loc' = [loc EXCEPT ![p].raised =
                              IF loc[p].op \in {"get_reset_password_token",
                                                "update_password"}
                              THEN "ValueError" ELSE ""]
                /\ pc' = [pc EXCEPT ![p] = "done"]
           ELSE /\ loc' = [loc EXCEPT ![p].found = users[i].id]
                /\ pc' = [pc EXCEPT ![p] = "op_update"]
    /\ UNCHANGED <<users, uuids, last, pwOf, consumed, http, datum>>

OpUpdate(p) ==
    /\ pc[p] = "op_update"
    /\ LET call == loc[p]
           uuid == _generate_uuid(uuids + 1)
       IN  CASE call.op = "create_session" ->
                    /\ uuids < MaxUuid
                    /\ users' = create_session_update(users, call.found, uuid)
                    /\ uuids' = uuids + 1
                    /\ loc' = [loc EXCEPT ![p].ret = Some(uuid)]
             [] call.op = "get_reset_password_token" ->
                    /\ uuids < MaxUuid
                    /\ users' = get_reset_password_token_update(
                                    users, call.found, uuid)
                    /\ uuids' = uuids + 1
                    /\ loc' = [loc EXCEPT ![p].ret = Some(uuid)]
             [] call.op = "destroy_session" ->
                    /\ users' = destroy_session_update(users, call.found)
                    /\ UNCHANGED <<uuids, loc>>
             [] call.op = "update_password" ->
                    /\ users' = update_password_update(
                                    users, call.found, call.password[1],
                                    call.salt[1])
                    /\ UNCHANGED <<uuids, loc>>
    /\ pc' = [pc EXCEPT ![p] = "done"]
    /\ UNCHANGED <<last, pwOf, consumed, http, datum>>

OpReturn(p) ==
    /\ pc[p] = "done"
    /\ pc' = [pc EXCEPT ![p] = "idle"]
    /\ loc' = [loc EXCEPT ![p] = Idle]
    /\ UNCHANGED <<users, uuids, last, pwOf, consumed, http, datum>>

NextOps ==
    \/ Register
    \/ \E p \in OpThreads :
           OpCall(p) \/ OpFind(p) \/ OpUpdate(p) \/ OpReturn(p)

SpecOps == Init /\ [][NextOps]_vars

(***************************************************************************)
(* The HTTP layer (app.py).  A form field or cookie that the request does  *)
(* not carry is None.  Every view is an operator from the table to the     *)
(* table it leaves and the response: status, JSON body (None for the page  *)
(* that abort() or redirect() sends) and the session_id cookie it sets.    *)
(***************************************************************************)
Response(db, status, body, set_cookie, gen) ==
    [db |-> db, status |-> status, body |-> body, set_cookie |-> set_cookie,
     gen |-> gen]

Falsy(field) == field = None \/ field = Some("")

app_register_user(db, email, password, salt) ==
    IF email = None \/ password = None
    THEN Response(db, 400, None, None, 0)
    ELSE LET r == register_user(db, email[1], password[1], salt)
         IN  IF r.raised = ""
             THEN Response(r.db, 200,
                           Some([email |-> email[1],
                                 message |-> "user created"]),
                           None, 0)
             ELSE IF r.raised = "ValueError"
             THEN Response(r.db, 400,
                           Some([message |-> "email already registered"]),
                           None, 0)
             ELSE Response(r.db, 500, None, None, 0)

login_forbidden_on_bad_credentials(db, email, password, n) ==
    IF Falsy(email) \/ Falsy(password)
    THEN Response(db, 400,
                  Some([message |-> "email and password required"]), None, 0)
    ELSE IF valid_login(db, email[1], password[1]).ret # Some(TRUE)
    THEN Response(db, 403, None, None, 0)
    ELSE LET r == create_session(db, email[1], n)
         IN  Response(r.db, 200,
                      Some([email |-> email[1], message |-> "logged in"]),
                      r.ret, r.gen)

login(db, email, password, n) ==
    IF Falsy(email) \/ Falsy(password)
    THEN Response(db, 400,
                  Some([message |-> "email and password required"]), None, 0)
    ELSE IF valid_login(db, email[1], password[1]).ret # Some(TRUE)
    THEN Response(db, 401, None, None, 0)
    ELSE LET r == create_session(db, email[1], n)
         IN  Response(r.db, 200,
                      Some([email |-> email[1], message |-> "logged in"]),
                      r.ret, r.gen)

log_out_keeps_session(db, session_id) ==
    LET u == get_user_from_session_id(db, session_id)
    IN  IF u.ret = None
        THEN Response(db, 403, None, None, 0)
        ELSE Response(db, 302, None, None, 0)

log_out(db, session_id) ==
    LET u == get_user_from_session_id(db, session_id)
    IN  IF u.ret = None
        THEN Response(db, 403, None, None, 0)
        ELSE Response(destroy_session(db, Some(u.ret[1].id)).db, 302, None,
                      None, 0)

profile(db, session_id) ==
    LET u == get_user_from_session_id(db, session_id)
    IN  IF u.ret # None
        THEN Response(db, 200, Some([email |-> u.ret[1].email]), None, 0)
        ELSE Response(db, 403, None, None, 0)

app_get_reset_password_token(db, email, n) ==
    IF email = None
    THEN Response(db, 400, None, None, 0)
    ELSE LET r == get_reset_password_token(db, email[1], n)
         IN  IF r.raised = "ValueError"
             THEN Response(r.db, 403, None, None, 0)
             ELSE Response(r.db, 200,
                           Some([email |-> email[1],
                                 reset_token |-> r.ret[1]]),
                           None, r.gen)

app_update_password(db, email, reset_token, new_password, salt) ==
    IF email = None \/ reset_token = None \/ new_password = None
    THEN Response(db, 400, None, None, 0)
    ELSE LET r == update_password(db, reset_token, new_password, salt)
         IN  IF r.raised = "ValueError"
             THEN Response(r.db, 403, None, None, 0)
             ELSE Response(r.db, 200,
                           Some([email |-> email[1],
                                 message |-> "Password updated"]),
                           None, 0)

(***************************************************************************)
(* Requests served one at a time.                                          *)
(***************************************************************************)
EmailFields == {None} \cup {Some(e) : e \in Emails}

Request(route, email, password, token, cookie, r) ==
    [route |-> route, email |-> email, password |-> password,
     token |-> token, cookie |-> cookie, status |-> r.status,
     body |-> r.body, set_cookie |-> r.set_cookie]

PostUsers ==
    \E email \in EmailFields, password \in PasswordArgs, salt \in HttpSalts :
        LET r == app_register_user(users, email, password, salt)
        IN  /\ users' = r.db
            /\ resp' = Request("POST /users", email, password, None, None, r)
            /\ UNCHANGED <<uuids, last, pwOf, consumed, pc, loc, live, dead,
                           stale, datum>>

PostSessions ==
    \E email \in EmailFields, password \in PasswordArgs :
        LET r == login(users, email, password, uuids)
        IN  /\ uuids + r.gen <= MaxUuid
            /\ users' = r.db
            /\ uuids' = uuids + r.gen
            /\ resp' = Request("POST /sessions", email, password, None,
                               None, r)
            /\ live' = IF r.status = 200
                       THEN {c \in live : c[2] # email[1]}
                                \cup {<<r.set_cookie, email[1]>>}
                       ELSE live
            /\ UNCHANGED <<last, pwOf, consumed, pc, loc, dead, stale, datum>>

DeleteSessions ==
    \E session_id \in TokenArgs :
        LET r == log_out(users, session_id)
        IN  /\ users' = r.db
            /\ resp' = Request("DELETE /sessions", None, None, None,
                               session_id, r)
            /\ live' = IF r.status = 302
                       THEN {c \in live : c[1] # session_id}
                       ELSE live
            /\ dead' = IF r.status = 302
                       THEN dead \cup {session_id}
                       ELSE dead
            /\ UNCHANGED <<uuids, last, pwOf, consumed, pc, loc, stale, datum>>

GetProfile ==
    \E session_id \in TokenArgs :
        LET r == profile(users, session_id)
        IN  /\ users' = r.db
            /\ resp' = Request("GET /profile", None, None, None,
                               session_id, r)
            /\ UNCHANGED <<uuids, last, pwOf, consumed, pc, loc, live, dead,
                           stale, datum>>

PostResetPassword ==
    \E email \in EmailFields :
        LET r == app_get_reset_password_token(users, email, uuids)
        IN  /\ uuids + r.gen <= MaxUuid
            /\ users' = r.db
            /\ uuids' = uuids + r.gen
            /\ resp' = Request("POST /reset_password", email, None, None,
                               None, r)
            /\ UNCHANGED <<last, pwOf, consumed, pc, loc, live, dead, stale,
                           datum>>

PutResetPassword ==
    \E email \in EmailFields, reset_token \in TokenArgs,
       new_password \in PasswordArgs, salt \in HttpSalts :
        LET r == app_update_password(users, email, reset_token, new_password,
                                     salt)
        IN  /\ users' = r.db
            /\ resp' = Request("PUT /reset_password", email, new_password,
                               reset_token, None, r)
            /\ UNCHANGED <<uuids, last, pwOf, consumed, pc, loc, live, dead,
                           stale, datum>>

NextHttp ==
    \/ PostUsers
    \/ PostSessions
    \/ DeleteSessions
    \/ GetProfile
    \/ PostResetPassword
    \/ PutResetPassword

SpecHttp == Init /\ [][NextHttp]_vars

(***************************************************************************)
(* POST /sessions on concurrent threads.  login makes three DB calls: the  *)
(* find_user_by of valid_login, the find_user_by of create_session and its *)
(* update_user; each is one atomic step of the thread, and the requests of *)
(* the other routes that write to the table (Serve...) run whole between   *)
(* them.  The response is built by the step that ends the request;         *)
(* create_session's miss leaves session_id None, which the 200 response    *)
(* then carries as its cookie.  resp records the login responses only, and *)
(* live and dead, the history of the requests served one at a time, are    *)
(* not kept here.                                                          *)
(***************************************************************************)
LoginValid(p) ==
    /\ pc[p] = "idle"
    /\ \E email \in EmailFields, password \in PasswordArgs :
           IF Falsy(email) \/ Falsy(password)
                  \/ valid_login(users, email[1], password[1]).ret # Some(TRUE)
           THEN /\ resp' = Request("POST /sessions", email, password, None,
                                   None, login(users, email, password, uuids))
                /\ stale' = FALSE
                /\ UNCHANGED <<pc, loc>>
           ELSE /\ loc' = [loc EXCEPT ![p] = [Idle EXCEPT !.op = "login",
                                                          !.email = email,
                                                          !.password = password]]
                /\ pc' = [pc EXCEPT ![p] = "login_find"]
                /\ UNCHANGED <<resp, stale>>
    /\ UNCHANGED <<users, uuids, last, pwOf, consumed, live, dead, datum>>

LoginFind(p) ==
    /\ pc[p] = "login_find"
    /\ LET i == find_user_by(users, "email", loc[p].email[1])
       IN  IF i = 0
           THEN /\ resp' = Request("POST /sessions", loc[p].email,
                                   loc[p].password, None, None,
                                   Response(users, 200,
                                            Some([email |-> loc[p].email[1],
                                                  message |-> "logged in"]),
                                            None, 0))
                /\ stale' = TRUE
                /\ pc' = [pc EXCEPT ![p] = "idle"]
                /\ loc' = [loc EXCEPT ![p] = Idle]
           ELSE /\ loc' = [loc EXCEPT ![p].found = users[i].id]
                /\ pc' = [pc EXCEPT ![p] = "login_update"]
                /\ UNCHANGED <<resp, stale>>
    /\ UNCHANGED <<users, uuids, last, pwOf, consumed, live, dead, datum>>

LoginUpdate(p) ==
    /\ pc[p] = "login_update"
    /\ uuids < MaxUuid
    /\ LET session_id == _generate_uuid(uuids + 1)
           db == create_session_update(users, loc[p].found, session_id)
       IN  /\ users' = db
           /\ uuids' = uuids + 1
           /\ resp' = Request("POST /sessions", loc[p].email, loc[p].password,
                              None, None,
                              Response(db, 200,
                                       Some([email |-> loc[p].email[1],
                                             message |-> "logged in"]),
                                       Some(session_id), 1))
           /\ stale' = (valid_login(db, loc[p].email[1],
                                    loc[p].password[1]).ret # Some(TRUE))
    /\ pc' = [pc EXCEPT ![p] = "idle"]
    /\ loc' = [loc EXCEPT ![p] = Idle]
    /\ UNCHANGED <<last, pwOf, consumed, live, dead, datum>>

ServeUsers ==
    \E email \in EmailFields, password \in PasswordArgs, salt \in HttpSalts :
        /\ users' = app_register_user(users, email, password, salt).db
        /\ UNCHANGED <<uuids, last, pwOf, consumed, pc, loc, http, datum>>

ServeLogout ==
    \E session_id \in TokenArgs :
        /\ users' = log_out(users, session_id).db
        /\ UNCHANGED <<uuids, last, pwOf, consumed, pc, loc, http, datum>>

ServeResetPassword ==
    \E email \in EmailFields :
        LET r == app_get_reset_password_token(users, email, uuids)
        IN  /\ uuids + r.gen <= MaxUuid
            /\ users' = r.db
            /\ uuids' = uuids + r.gen
            /\ UNCHANGED <<last, pwOf, consumed, pc, loc, http, datum>>

ServeUpdatePassword ==
    \E email \in EmailFields, reset_token \in TokenArgs,
       new_password \in PasswordArgs, salt \in HttpSalts :
        /\ users' = app_update_password(users, email, reset_token,
                                        new_password, salt).db
        /\ UNCHANGED <<uuids, last, pwOf, consumed, pc, loc, http, datum>>

NextLogin ==
    \/ \E p \in OpThreads : LoginValid(p) \/ LoginFind(p) \/ LoginUpdate(p)
    \/ ServeUsers
    \/ ServeLogout
    \/ ServeResetPassword
    \/ ServeUpdatePassword

SpecLogin == Init /\ [][NextLogin]_vars

(***************************************************************************)
(* Log redaction (0x00-personal_data/filtered_logger.py).  A string is the *)
(* sequence of its characters.  re_sub is re.sub for the pattern           *)
(* f"{field}=.*?{separator}" that filter_datum builds: scanning from the   *)
(* left, at the first position where the text field= begins and a          *)
(* separator follows on the same line ('.' matches no newline), the text   *)
(* up to and including the nearest separator is replaced and the scan goes *)
(* on behind it; any other character is copied.  The pattern is searched   *)
(* anywhere in the message, not only where a key begins.  Field names and  *)
(* separator are made of characters that are literals in a pattern.        *)
(***************************************************************************)
REDACTION == <<"*", "*", "*">>
SEPARATOR == <<";">>

StartsWith(s, i, t) ==
    /\ i + Len(t) - 1 <= Len(s)
    /\ SubSeq(s, i, i + Len(t) - 1) = t

NearestSeparator(s, j, separator) ==
    LET M == {m \in j..Len(s) :
                 /\ StartsWith(s, m, separator)
                 /\ \A n \in j..(m - 1) : s[n] # "\n"}
    IN  IF M = {} THEN 0 ELSE Least(M)

RECURSIVE re_sub(_, _, _, _, _)
re_sub(field, separator, replacement, s, i) ==
    IF i > Len(s)
    THEN <<>>
    ELSE LET m == IF StartsWith(s, i, field \o <<"=">>)
                  THEN NearestSeparator(s, i + Len(field) + 1, separator)
                  ELSE 0
         IN  IF m # 0
             THEN replacement
                      \o re_sub(field, separator, replacement, s,
                                m + Len(separator))
             ELSE <<s[i]>>
                      \o re_sub(field, separator, replacement, s, i + 1)

RECURSIVE filter_datum(_, _, _, _)
filter_datum(fields, redaction, message, separator) ==
    IF fields = <<>>
    THEN message
    ELSE filter_datum(Tail(fields), redaction,
                      re_sub(Head(fields), separator,
                             Head(fields) \o <<"=">> \o redaction
                                 \o separator,
                             message, 1),
                      separator)

(***************************************************************************)
(* The calls: the message is a log line of at most MaxPairs key=value;     *)
(* pairs, as main and RedactingFormatter.format pass it, and fields lists  *)
(* field names without repetition.                                         *)
(***************************************************************************)
FieldNames == {<<"a">>, <<"b">>}
Keys == FieldNames \cup {<<"b", "a">>}
Values == {<<>>, <<"v">>}

FieldLists ==
    {<<>>} \cup {<<f>> : f \in FieldNames}
           \cup UNION {{<<f, g>> : g \in FieldNames \ {f}} : f \in FieldNames}

RECURSIVE PairLists(_)
PairLists(n) ==
    IF n = 0
    THEN {<<>>}
    ELSE PairLists(n - 1)
             \cup {Append(l, <<k, v>>) :
                       l \in {q \in PairLists(n - 1) : Len(q) = n - 1},
                       k \in Keys, v \in Values}

RECURSIVE Line(_, _)
Line(pairs, separator) ==
    IF pairs = <<>>
    THEN <<>>
    ELSE pairs[1][1] \o <<"=">> \o pairs[1][2] \o separator
             \o Line(Tail(pairs), separator)

InitFilter ==
    /\ users = <<>>
    /\ uuids = 0
    /\ last = NoCall
    /\ pwOf = [e \in Emails |-> None]
    /\ consumed = {}
    /\ pc = [p \in Procs |-> "idle"]
    /\ loc = [p \in Procs |-> Idle]
    /\ resp = NoRequest
    /\ live = {}
    /\ dead = {}
    /\ stale = FALSE
    /\ \E fields \in FieldLists, pairs \in PairLists(MaxPairs) :
           datum = [NoDatum EXCEPT !.fields = fields, !.pairs = pairs,
                                   !.message = Line(pairs, SEPARATOR)]

FilterDatum ==
    /\ ~datum.done
    /\ datum' = [datum EXCEPT !.out = filter_datum(datum.fields, REDACTION,
                                                   datum.message, SEPARATOR),
                              !.done = TRUE]
    /\ UNCHANGED <<users, uuids, last, pwOf, consumed, pc, loc, http>>

NextFilter == FilterDatum

SpecFilter == InitFilter /\ [][NextFilter]_vars

(***************************************************************************)
(* Properties.                                                             *)
(***************************************************************************)
Rows(db, key, val) == Cardinality(Matches(db, key, val))

Registered(e) == pwOf[e] # None

\* C1: for every email at most one register_user call goes through: a
\* register_user call for an email that a registration already went through
\* for raises ValueError and leaves the table as it was, and the table
\* never holds two rows with the same email.
C1_RegisterOnce ==
    [][/\ \A e \in Emails : Rows(users', "email", e) <= 1
       /\ \A e \in Emails :
              (/\ last'.op = "register_user"
               /\ last'.email = Some(e)
               /\ Registered(e))
              => (last'.raised = "ValueError" /\ users' = users)
       /\ \A e \in Emails :
              (/\ last'.op = "register_user"
               /\ last'.email = Some(e)
               /\ ~Registered(e))
              => (/\ last'.raised = ""
                  /\ Rows(users', "email", e) = 1
                  /\ last'.ret = Some(users'[Len(users')])
                  /\ users'[Len(users')].email = e)]_vars

C1_Witness ==
    /\ last.op = "register_user"
    /\ last.raised = "ValueError"
    /\ Len(users) = 2

\* C2: when register_user calls for the same email interleave, at most one
\* of them returns a user and the table ends with exactly one row for that
\* email.
C2_ConcurrentRegisterOnce ==
    \A e \in Emails :
        /\ Rows(users, "email", e) <= 1
        /\ Cardinality({p \in Procs : /\ pc[p] = "done"
                                      /\ loc[p].email = Some(e)
                                      /\ loc[p].ret # None}) <= 1

\* C3: valid_login(E, P) returns true exactly when a user with email E
\* exists and P is the password of the registration or, if a password
\* update went through for that user since, of the most recent one; it
\* never raises, and returns false for an unknown email.
C3_LoginCorrect ==
    /\ \A e \in Emails, p \in Passwords :
           LET r == valid_login(users, e, p)
           IN  /\ r.raised = ""
               /\ r.ret = Some(pwOf[e] = Some(p))
               /\ (find_user_by(users, "email", e) = 0 => r.ret = Some(FALSE))
    /\ last.op = "valid_login"
           => (/\ last.raised = ""
               /\ last.ret = Some(pwOf[last.email[1]] = last.password))

C3_Witness ==
    /\ last.op = "valid_login"
    /\ last.ret = Some(FALSE)
    /\ consumed # {}
    /\ find_user_by(users, "email", last.email[1]) # 0
    /\ Len(users) = 1

\* C4: session round trip: create_session(E) for a registered email E
\* returns a token T, and get_user_from_session_id(T) called right after it
\* returns the user that the look-up by email E returns.
C4_SessionRoundTrip ==
    last.op = "create_session"
        => LET i == find_user_by(users, "email", last.email[1])
           IN  /\ (i # 0) = (last.ret # None)
               /\ i # 0 => /\ last.ret[1] \in Uuids
                           /\ get_user_from_session_id(users, last.ret).ret
                                  = Some(users[i])

C4_Witness ==
    /\ last.op = "create_session"
    /\ last.ret # None
    /\ Len(users) = 2
    /\ last.email = Some(users[2].email)

\* C5: a destroy_session(u.id) call for a user u whose session token was T
\* leaves u.session_id None, makes get_user_from_session_id(T) return None,
\* and keeps the record of u in the table.
C5_DestroySession ==
    [][\A i \in 1..Len(users) :
           (/\ users[i].session_id # None
            /\ last'.op = "destroy_session"
            /\ last'.user_id = Some(users[i].id))
           => (/\ Len(users') = Len(users)
               /\ users'[i].id = users[i].id
               /\ users'[i].email = users[i].email
               /\ users'[i].session_id = None
               /\ get_user_from_session_id(users', users[i].session_id).ret
                      = None)]_vars

C5_Witness ==
    /\ last.op = "destroy_session"
    /\ Len(users) = 1
    /\ last.user_id = Some(users[1].id)
    /\ users[1].session_id = None
    /\ users[1].reset_token = None
    /\ uuids = 1
    /\ consumed = {}

\* C6: two create_session calls in a row for the same email return tokens
\* T1 and T2 with T2 # T1; afterwards get_user_from_session_id(T1) returns
\* None and get_user_from_session_id(T2) returns the user, who holds the
\* one session T2.
C6_SingleSession ==
    [][(/\ last.op = "create_session"
        /\ last.ret # None
        /\ last'.op = "create_session"
        /\ last'.email = last.email)
       => LET i == find_user_by(users', "email", last'.email[1])
          IN  /\ last'.ret # None
              /\ last'.ret # last.ret
              /\ i # 0
              /\ users'[i].session_id = last'.ret
              /\ get_user_from_session_id(users', last.ret).ret = None
              /\ get_user_from_session_id(users', last'.ret).ret
                     = Some(users'[i])]_vars

C6_Witness ==
    /\ last.op = "create_session"
    /\ last.ret = Some(_generate_uuid(2))
    /\ Len(users) = 1
    /\ users[1].reset_token = None
    /\ consumed = {}
    /\ get_user_from_session_id(users, Some(_generate_uuid(1))).ret = None

\* C7 as stated: once update_password(T, p) has gone through, the user's
\* reset_token is None and every later update_password(T, q) call raises
\* ValueError and leaves the table as it was.
Through(t) == t \in consumed' /\ t \notin consumed

C7_ResetTokenSingleUse_Stated ==
    [][/\ \A t \in TokenArgs :
              Through(t) =>
                  users'[find_user_by(users, "reset_token", t)].reset_token
                      = None
       /\ (last'.op = "update_password" /\ last'.token \in consumed)
              => (last'.raised = "ValueError" /\ users' = users)]_vars

\* C7: once update_password(T, p) has gone through, the user's reset_token
\* is None and every later update_password(T, q) call leaves the table as
\* it was: it raises ValueError, unless q is None, when it returns
\* normally.
C7_ResetTokenSingleUse ==
    [][/\ \A t \in TokenArgs :
              Through(t) =>
                  users'[find_user_by(users, "reset_token", t)].reset_token
                      = None
       /\ (last'.op = "update_password" /\ last'.token \in consumed)
              => (/\ users' = users
                  /\ last'.raised =
                         IF last'.password = None THEN "" ELSE "ValueError")]_vars

C7_Witness ==
    /\ last.op = "update_password"
    /\ last.token \in consumed
    /\ last.password # None
    /\ last.raised = "ValueError"

\* C8: idempotent logout: destroy_session called twice in a row with the
\* same user id raises nothing either time, leaves session_id None after
\* each call, and the second call leaves the table exactly as the first
\* left it.
SessionOf(db, user_id) ==
    IF user_id = None \/ find_user_by(db, "id", user_id[1]) = 0
    THEN None
    ELSE db[find_user_by(db, "id", user_id[1])].session_id

C8_IdempotentLogout ==
    /\ \A user_id \in IdArgs :
           LET first == destroy_session(users, user_id)
               second == destroy_session(first.db, user_id)
           IN  /\ first.raised = ""
               /\ second.raised = ""
               /\ Len(first.db) = Len(users)
               /\ SessionOf(first.db, user_id) = None
               /\ SessionOf(second.db, user_id) = None
               /\ second.db = first.db
    /\ last.op = "destroy_session"
           => (/\ last.raised = ""
               /\ SessionOf(users, last.user_id) = None
               /\ destroy_session(users, last.user_id).db = users
               /\ destroy_session(users, last.user_id).raised = "")

C8_Witness ==
    /\ last.op = "destroy_session"
    /\ last.user_id # None
    /\ find_user_by(users, "id", last.user_id[1]) # 0
    /\ \E i \in 1..Len(users) : users[i].session_id # None

\* C9: update_password returns normally and leaves every user's
\* hashed_password and reset_token as they were whenever either argument is
\* None or the empty string.
Blank == {None, Some("")}

C9_UpdatePasswordBlankNoOp ==
    [][(/\ last'.op = "update_password"
        /\ (last'.token \in Blank \/ last'.password \in Blank))
       => (/\ last'.raised = ""
           /\ Len(users') = Len(users)
           /\ \A i \in 1..Len(users) :
                  /\ users'[i].hashed_password = users[i].hashed_password
                  /\ users'[i].reset_token = users[i].reset_token)]_vars

\* C10 as stated: get_user_from_session_id returns None for a token that is
\* None or empty, without any store look-up; for any other token it returns
\* the user holding it, None if there is none.
Holder(db, session_id) ==
    IF find_user_by(db, "session_id", session_id) = 0
    THEN None
    ELSE Some(db[find_user_by(db, "session_id", session_id)])

C10_SessionLookup_Stated ==
    last.op = "get_user_from_session_id"
        => IF last.token \in Blank
           THEN last.ret = None /\ last.lookups = 0
           ELSE last.ret = Holder(users, last.token)

\* C10: get_user_from_session_id returns None for a token that is None or
\* empty: for None without any store look-up, for the empty string after
\* one look-up that matches no user.  For any other token it returns the
\* user holding it, None if there is none.  A user without a session is
\* never returned.
C10_SessionLookup ==
    /\ \A session_id \in TokenArgs :
           LET r == get_user_from_session_id(users, session_id)
           IN  /\ r.raised = ""
               /\ r.db = users
               /\ session_id = None => (r.ret = None /\ r.lookups = 0)
               /\ session_id = Some("") => (r.ret = None /\ r.lookups = 1)
               /\ session_id \notin Blank
                      => (r.ret = Holder(users, session_id) /\ r.lookups = 1)
               /\ r.ret # None => r.ret[1].session_id = session_id
    /\ last.op = "get_user_from_session_id"
           => (/\ last.ret = get_user_from_session_id(users, last.token).ret
               /\ last.lookups
                      = get_user_from_session_id(users, last.token).lookups)

C10_Witness ==
    /\ last.op = "get_user_from_session_id"
    /\ last.token = Some("")
    /\ last.ret = None
    /\ last.lookups = 1
    /\ Len(users) = 2
    /\ users[1].session_id = None
    /\ users[2].session_id # None

\* C11: get_reset_password_token(E) for a registered email E returns a
\* token R that is stored as that user's reset_token.  When a token T1 was
\* pending, R differs from T1 and replaces it: afterwards update_password
\* with T1 raises ValueError and changes nothing, and update_password with
\* R goes through (new hash stored, reset_token cleared).
C11_ResetTokenReplaced ==
    [][\A i \in 1..Len(users) :
           (/\ last'.op = "get_reset_password_token"
            /\ last'.email = Some(users[i].email))
           => /\ last'.raised = ""
              /\ last'.ret # None
              /\ last'.ret[1] \in Uuids
              /\ users'[i].reset_token = last'.ret
              /\ users[i].reset_token # None
                     => /\ last'.ret # users[i].reset_token
                        /\ \A p \in Passwords, salt \in HttpSalts :
                               LET old == update_password(
                                              users', users[i].reset_token,
                                              Some(p), salt)
                                   new == update_password(
                                              users', last'.ret, Some(p), salt)
                               IN  /\ old.raised = "ValueError"
                                   /\ old.db = users'
                                   /\ new.raised = ""
                                   /\ new.db[i].reset_token = None
                                   /\ new.db[i].hashed_password
                                          = _hash_password(p, salt)]_vars

C11_Witness ==
    /\ last.op = "get_reset_password_token"
    /\ last.ret = Some(_generate_uuid(2))
    /\ Len(users) = 1
    /\ users[1].session_id = None
    /\ users[1].reset_token = Some(_generate_uuid(2))
    /\ consumed = {}

\* C12: the session operations swallow look-up misses: create_session for
\* an unregistered email returns None, get_user_from_session_id for a token
\* no user holds returns None, destroy_session with user_id None or an id
\* no user has returns normally; none of them raises or changes the table.
C12_SessionMissesSwallowed ==
    /\ \A e \in Emails :
           find_user_by(users, "email", e) = 0
               => LET r == create_session(users, e, uuids)
                  IN  r.ret = None /\ r.raised = "" /\ r.db = users
    /\ \A t \in TokenArgs :
           (t = None \/ find_user_by(users, "session_id", t) = 0)
               => LET r == get_user_from_session_id(users, t)
                  IN  r.ret = None /\ r.raised = "" /\ r.db = users
    /\ \A user_id \in IdArgs :
           (user_id = None \/ find_user_by(users, "id", user_id[1]) = 0)
               => LET r == destroy_session(users, user_id)
                  IN  r.ret = None /\ r.raised = "" /\ r.db = users
    /\ (last.op = "create_session" /\ last.ret = None)
           => (/\ last.raised = ""
               /\ find_user_by(users, "email", last.email[1]) = 0)

C12_Witness ==
    /\ last.op = "create_session"
    /\ last.ret = None
    /\ last.raised = ""
    /\ Len(users) = 1
    /\ users[1].session_id # None

\* C13 as stated: register_user for an existing email, get_reset_password_token
\* for an unregistered email and update_password with a non-empty token that
\* no user holds all raise ValueError and leave the table as it was.
UnknownResetTokens ==
    {t \in TokenArgs \ Blank : find_user_by(users, "reset_token", t) = 0}

RegisterOrResetMiss ==
    \/ /\ last'.op = "register_user"
       /\ find_user_by(users, "email", last'.email[1]) # 0
    \/ /\ last'.op = "get_reset_password_token"
       /\ find_user_by(users, "email", last'.email[1]) = 0

UpdatePasswordMiss ==
    /\ last'.op = "update_password"
    /\ last'.token \in UnknownResetTokens

C13_UserErrorsSurfaced_Stated ==
    [][(RegisterOrResetMiss \/ UpdatePasswordMiss)
       => (last'.raised = "ValueError" /\ users' = users)]_vars

\* C13: register_user for an existing email and get_reset_password_token
\* for an unregistered email raise ValueError; update_password with a
\* non-empty token that no user holds raises ValueError unless the password
\* is None, when it returns normally; in all these cases the table is left
\* as it was.
C13_UserErrorsSurfaced ==
    [][/\ RegisterOrResetMiss
              => (last'.raised = "ValueError" /\ users' = users)
       /\ UpdatePasswordMiss
              => (/\ users' = users
                  /\ last'.raised =
                         IF last'.password = None THEN "" ELSE "ValueError")]_vars

C13_Witness ==
    /\ last.op = "get_reset_password_token"
    /\ last.raised = "ValueError"
    /\ Len(users) = 1
    /\ users[1].reset_token # None

\* C18: no two users hold the same session_id and no two users hold the
\* same reset_token (None apart), so a look-up by session token or by
\* reset token matches at most one row.
C18_TokensUnique ==
    /\ \A i, j \in 1..Len(users) :
           i # j => /\ users[i].session_id # None
                           => users[i].session_id # users[j].session_id
                    /\ users[i].reset_token # None
                           => users[i].reset_token # users[j].reset_token
    /\ \A t \in TokenArgs \ {None} :
           /\ Rows(users, "session_id", t) <= 1
           /\ Rows(users, "reset_token", t) <= 1

C18_Witness ==
    /\ Len(users) = 2
    /\ users[1].session_id # None
    /\ users[2].session_id # None

\* C19: every call changes only the columns it is for, and only in the row
\* it is for: create_session and destroy_session the session_id,
\* get_reset_password_token the reset_token, update_password the
\* hashed_password and the reset_token; every other column of every
\* existing row is left as it was, so a session token that resolved to a
\* user before an update_password resolves to that user after it.
Columns == {"id", "email", "hashed_password", "session_id", "reset_token"}

Target(call) ==
    IF call.op \in {"create_session", "get_reset_password_token"}
    THEN find_user_by(users, "email", call.email[1])
    ELSE IF call.op = "destroy_session" /\ call.user_id # None
    THEN find_user_by(users, "id", call.user_id[1])
    ELSE IF call.op = "update_password" /\ call.token # None
    THEN find_user_by(users, "reset_token", call.token)
    ELSE 0

Touched(call) ==
    IF call.op \in {"create_session", "destroy_session"}
    THEN {"session_id"}
    ELSE IF call.op = "get_reset_password_token"
    THEN {"reset_token"}
    ELSE IF call.op = "update_password"
    THEN {"hashed_password", "reset_token"}
    ELSE {}

C19_FrameEffect ==
    [][/\ Len(users') >= Len(users)
       /\ \A i \in 1..Len(users) :
              \A c \in Columns :
                  (i # Target(last') \/ c \notin Touched(last'))
                      => users'[i][c] = users[i][c]
       /\ last'.op = "update_password"
              => \A i \in 1..Len(users) :
                     users[i].session_id # None
                         => get_user_from_session_id(
                                users', users[i].session_id).ret
                                = Some(users'[i])]_vars

C19_Witness ==
    /\ last.op = "update_password"
    /\ last.raised = ""
    /\ last.password # None
    /\ last.token \in consumed
    /\ \E i \in 1..Len(users) : users[i].session_id # None

\* C20: user records are only ever added: no call removes a row, and the
\* id and the email of an existing row never change.
C20_RecordsOnlyAdded ==
    [][/\ Len(users') >= Len(users)
       /\ \A i \in 1..Len(users) :
              /\ users'[i].id = users[i].id
              /\ users'[i].email = users[i].email]_vars

C20_Witness ==
    /\ Len(users) = 2
    /\ last.op = "destroy_session"
    /\ last.user_id = Some(users[1].id)
    /\ users[2].session_id # None
    /\ consumed # {}

\* C14 as stated: the status of every response is 400 when a required
\* form field is missing and for a duplicate registration, 401 when
\* POST /sessions is given credentials for which valid_login is false, 403
\* when DELETE /sessions or GET /profile carries no session cookie or one no
\* user holds and when the reset flow is given an unknown email or a reset
\* token no user holds, and otherwise 200 with a JSON body (302 for a
\* logout).
Missing(req, fields, orEmpty) ==
    \E f \in fields : req[f] = None \/ (orEmpty /\ req[f] = Some(""))

ExpectedStatus(req, emptyLoginFieldIsMissing) ==
    CASE req.route = "POST /users" ->
             IF Missing(req, {"email", "password"}, FALSE) THEN 400
             ELSE IF find_user_by(users, "email", req.email[1]) # 0 THEN 400
             ELSE 200
      [] req.route = "POST /sessions" ->
             IF Missing(req, {"email", "password"}, emptyLoginFieldIsMissing)
             THEN 400
             ELSE IF valid_login(users, req.email[1], req.password[1]).ret
                         # Some(TRUE)
             THEN 401
             ELSE 200
      [] req.route = "DELETE /sessions" ->
             IF req.cookie = None \/ Holder(users, req.cookie) = None
             THEN 403 ELSE 302
      [] req.route = "GET /profile" ->
             IF req.cookie = None \/ Holder(users, req.cookie) = None
             THEN 403 ELSE 200
      [] req.route = "POST /reset_password" ->
             IF Missing(req, {"email"}, FALSE) THEN 400
             ELSE IF find_user_by(users, "email", req.email[1]) = 0 THEN 403
             ELSE 200
      [] req.route = "PUT /reset_password" ->
             IF Missing(req, {"email", "token", "password"}, FALSE) THEN 400
             ELSE IF find_user_by(users, "reset_token", req.token) = 0
             THEN 403
             ELSE 200

C14_StatusCodes_Stated ==
    [][/\ resp'.status = ExpectedStatus(resp', FALSE)
       /\ resp'.status = 200 => resp'.body # None]_vars

\* C14: as stated, except that POST /sessions also answers 400 when the
\* email or the password field is present but empty, whatever valid_login
\* would say of them.
C14_StatusCodes ==
    [][/\ resp'.status = ExpectedStatus(resp', TRUE)
       /\ resp'.status = 200 => resp'.body # None]_vars

C14_Witness ==
    /\ resp.route = "POST /sessions"
    /\ resp.status = 401
    /\ resp.email # None
    /\ find_user_by(users, "email", resp.email[1]) # 0

\* C15: GET /profile with the cookie that a successful POST /sessions
\* issued answers 200 with the email that logged in, for as long as no
\* logout destroyed that session and no later login of the same user
\* replaced it; once DELETE /sessions has gone through with a cookie,
\* GET /profile and DELETE /sessions with that cookie answer 403.
C15_SessionProtocol ==
    /\ \A c \in live :
           LET r == profile(users, c[1])
           IN  r.status = 200 /\ r.body = Some([email |-> c[2]])
    /\ \A t \in dead :
           /\ profile(users, t).status = 403
           /\ log_out(users, t).status = 403
    /\ resp.route = "GET /profile"
           => /\ \A c \in live :
                     c[1] = resp.cookie
                         => (/\ resp.status = 200
                             /\ resp.body = Some([email |-> c[2]]))
              /\ resp.cookie \in dead => resp.status = 403

C15_Witness ==
    /\ resp.route = "GET /profile"
    /\ resp.status = 403
    /\ resp.cookie \in dead
    /\ live # {}

\* C16: when update_password calls with the same reset token T interleave,
\* at most one of them goes through, and T is no longer any user's
\* reset_token once a password has been changed with it.
WentThrough(t) ==
    {p \in OpThreads : /\ pc[p] = "done"
                       /\ loc[p].op = "update_password"
                       /\ loc[p].token = Some(t)
                       /\ loc[p].raised = ""}

C16_ConcurrentResetSingleUse ==
    \A t \in Uuids :
        /\ Cardinality(WentThrough(t)) <= 1
        /\ WentThrough(t) # {} => Rows(users, "reset_token", Some(t)) = 0

\* C17: interleaved calls on user records lose no update: the update_user
\* step of a call writes the columns that call is for, in the row it
\* found, with the values of that call, and every other column of every
\* row stays as it is stored at that moment; no other step changes a row.
Updating(p) == pc[p] = "op_update" /\ pc'[p] = "done"

C17_NoLostUpdate ==
    [][/\ Len(users') >= Len(users)
       /\ \A j \in 1..Len(users), c \in Columns :
              users'[j][c] # users[j][c]
                  => \E p \in OpThreads : /\ Updating(p)
                                          /\ users[j].id = loc[p].found
                                          /\ c \in Touched(loc[p])
       /\ \A p \in OpThreads :
              Updating(p)
                  => LET j == find_user_by(users, "id", loc[p].found)
                         row == users'[j]
                     IN  CASE loc[p].op = "create_session" ->
                                  row.session_id = loc'[p].ret
                           [] loc[p].op = "destroy_session" ->
                                  row.session_id = None
                           [] loc[p].op = "get_reset_password_token" ->
                                  row.reset_token = loc'[p].ret
                           [] loc[p].op = "update_password" ->
                                  /\ row.reset_token = None
                                  /\ row.hashed_password =
                                         _hash_password(loc[p].password[1],
                                                        loc[p].salt[1])]_vars

C17_Witness ==
    \E p, q \in OpThreads :
        /\ pc[p] = "done" /\ loc[p].op = "create_session"
        /\ pc[q] = "done" /\ loc[q].op = "get_reset_password_token"
        /\ loc[p].found = loc[q].found
        /\ loc[p].found # 0
        /\ \E j \in 1..Len(users) :
               /\ users[j].id = loc[p].found
               /\ users[j].session_id = loc[p].ret
               /\ users[j].reset_token = loc[q].ret

(***************************************************************************)
(* C21: a POST /sessions request that got past valid_login ends with a 200 *)
(* response whose session_id cookie is the token create_session returned,  *)
(* never None, and get_user_from_session_id gives for that cookie the      *)
(* record of the email that logged in, whatever requests ran between the   *)
(* steps of the login.                                                     *)
(***************************************************************************)
LoginEnds(p) == pc[p] \in {"login_find", "login_update"} /\ pc'[p] = "idle"

Resolves(db, cookie, email) ==
    /\ cookie # None
    /\ get_user_from_session_id(db, cookie).ret # None
    /\ get_user_from_session_id(db, cookie).ret[1].email = email
    /\ get_user_from_session_id(db, cookie).ret[1].id
           = db[find_user_by(db, "email", email)].id

C21_LoginIssuesSession ==
    [][\A p \in OpThreads :
           LoginEnds(p) =>
               /\ resp'.route = "POST /sessions"
               /\ resp'.status = 200
               /\ resp'.email = loc[p].email
               /\ Resolves(users', resp'.set_cookie, loc[p].email[1])]_vars

\* The login answered 200 with a cookie that resolves, although a password
\* update that ran between its valid_login step and the end of its
\* create_session call had made its credentials invalid.
C21_Witness ==
    /\ resp.route = "POST /sessions"
    /\ resp.status = 200
    /\ stale
    /\ Resolves(users, resp.set_cookie, resp.email[1])

(***************************************************************************)
(* C22: filter_datum returns the message in which the value of every       *)
(* key=value; pair whose key is a listed field is the redaction marker,    *)
(* and every pair whose key is not a listed field is as it was, also when  *)
(* the key ends with a listed field name.                                  *)
(***************************************************************************)
Listed(key) == \E i \in 1..Len(datum.fields) : datum.fields[i] = key

Redacted(pairs) ==
    [i \in 1..Len(pairs) |->
        IF Listed(pairs[i][1]) THEN <<pairs[i][1], REDACTION>> ELSE pairs[i]]

C22_FilterDatum ==
    datum.done => datum.out = Line(Redacted(datum.pairs), SEPARATOR)

====
